---- MODULE Spec2Model ----
(***************************************************************************)
(* Model of "Brownian motion/randomwalk.py": the two step functions        *)
(* move_particle and move_particle2D, the two aggregate functions          *)
(* calculate_mean_squared_displacement(2D), and the drivers that build a   *)
(* trajectory by calling a step function repeatedly.                       *)
(*                                                                         *)
(* Numbers are exact: positions, speeds and time steps are integers, the   *)
(* uniform draw A and the threshold prob are numerators over the common    *)
(* denominator UnitDen (A = a/UnitDen with 0 <= a < UnitDen), and a true   *)
(* division returns a reduced fraction.  Floating-point rounding is not    *)
(* modelled.                                                               *)
(***************************************************************************)
EXTENDS Integers, Sequences, FiniteSets, TLC

VARIABLES fn, pc, args, draw, ret,
          xk, yk, N, i, sum, sigma_carre, err,
          traj,
          tape, cursor, run, runs

vars == <<fn, pc, args, draw, ret, xk, yk, N, i, sum, sigma_carre, err,
          traj, tape, cursor, run, runs>>

stepVars == <<args, draw, ret>>
msdVars == <<xk, yk, N, i, sum, sigma_carre, err>>
walkVars == <<traj>>
detVars == <<tape, cursor, run, runs>>

None == "None"

(* ----------------------------- bounds ---------------------------------- *)
MaxCoord == 2
MaxSpeed == 2
MaxDt == 2
UnitDen == 4
MaxVal == 3
MaxLen == 3
MaxVal2D == 2
MaxLen2D == 2
MaxSteps == 10
MaxCalls == 2

Coords == (0 - MaxCoord)..MaxCoord
Speeds == (0 - MaxSpeed)..MaxSpeed
Dts == 0..MaxDt
\* random.random() returns a float in [0, 1): numerators 0..UnitDen-1
UniformDraws == 0..(UnitDen - 1)
\* thresholds from below 0 to above 1; prob = 0 is the numerator 0 and
\* prob = 1 is the numerator UnitDen
Probs == (0 - 1)..(UnitDen + 1)
ProbOne == UnitDen

Abs(n) == IF n < 0 THEN 0 - n ELSE n

SeqsUpTo(S, n) == UNION {[1..m -> S] : m \in 0..n}

(* ------------------------- the random source --------------------------- *)
\* the population handed to random.choice
Signs == <<0 - 1, 1>>

\* random.choice(seq) with the index k it draws in 0..len(seq)-1
choice(seq, k) == seq[k + 1]

ChoiceIndexes == 0..(Len(Signs) - 1)

(* -------------------------- step functions ----------------------------- *)
move_particle_dropDt(xi, v, dt, eps) == xi + eps * v

move_particle_epsOutside(xi, v, dt, eps) == eps * (xi + v * dt)

\* xip1 = xi + eps*v*dt, with eps the sign drawn by random.choice([-1, 1])
move_particle(xi, v, dt, eps) == xi + eps * v * dt

move_particle2D_both(xi, yi, v, dt, prob, eps, A) ==
    [xip1 |-> xi + eps * v * dt, yip1 |-> yi + eps * v * dt]

move_particle2D_swapped(xi, yi, v, dt, prob, eps, A) ==
    IF A < prob
      THEN [xip1 |-> xi, yip1 |-> yi + eps * v * dt]
      ELSE [xip1 |-> xi + eps * v * dt, yip1 |-> yi]

move_particle2D_leq(xi, yi, v, dt, prob, eps, A) ==
    IF A <= prob
      THEN [xip1 |-> xi + eps * v * dt, yip1 |-> yi]
      ELSE [xip1 |-> xi, yip1 |-> yi + eps * v * dt]

move_particle2D_lostFrame(xi, yi, v, dt, prob, eps, A) ==
    IF A < prob
      THEN [xip1 |-> xi + eps * v * dt, yip1 |-> 0]
      ELSE [xip1 |-> 0, yip1 |-> yi + eps * v * dt]

\* xip1 = xi; yip1 = yi; if A < prob: xip1 = xi + eps*v*dt
\* else: yip1 = yi + eps*v*dt; return xip1, yip1.
\* A and prob are numerators over UnitDen, so A < prob compares the numerators.
move_particle2D(xi, yi, v, dt, prob, eps, A) ==
    IF A < prob
      THEN [xip1 |-> xi + eps * v * dt, yip1 |-> yi]
      ELSE [xip1 |-> xi, yip1 |-> yi + eps * v * dt]

(* ---------------- one call of a step function (SpecStep) --------------- *)
ArgSets == [xi : Coords, yi : Coords, v : Speeds, dt : Dts, prob : Probs]

InitStep ==
    /\ fn = None
    /\ pc = "ready"
    /\ args \in ArgSets
    /\ draw = None
    /\ ret = None
    /\ xk = None /\ yk = None /\ N = None /\ i = None /\ sum = None
    /\ sigma_carre = None /\ err = None
    /\ traj = None
    /\ tape = None /\ cursor = None /\ run = None /\ runs = None

\* a call move_particle(xi, v, dt); the caller may call again with the same
\* arguments
CallMoveParticle ==
    /\ pc \in {"ready", "returned"}
    /\ \E k \in ChoiceIndexes :
         LET eps == choice(Signs, k) IN
           /\ draw' = [eps |-> eps, A |-> None]
           /\ ret' = [xip1 |-> move_particle(args.xi, args.v, args.dt, eps),
                      yip1 |-> None]
    /\ fn' = "move_particle"
    /\ pc' = "returned"
    /\ UNCHANGED <<args, msdVars, walkVars, detVars>>

\* a call move_particle2D(xi, yi, v, dt, prob)
CallMoveParticle2D ==
    /\ pc \in {"ready", "returned"}
    /\ \E k \in ChoiceIndexes, a \in UniformDraws :
         LET eps == choice(Signs, k) IN
           /\ draw' = [eps |-> eps, A |-> a]
           /\ ret' = move_particle2D(args.xi, args.yi, args.v, args.dt,
                                     args.prob, eps, a)
    /\ fn' = "move_particle2D"
    /\ pc' = "returned"
    /\ UNCHANGED <<args, msdVars, walkVars, detVars>>

NextStep == CallMoveParticle \/ CallMoveParticle2D

SpecStep == InitStep /\ [][NextStep]_vars

Returned1D == fn = "move_particle" /\ pc = "returned"
Returned2D == fn = "move_particle2D" /\ pc = "returned"

\* C1: move_particle returns exactly x + v*dt or exactly x - v*dt, the sign
\* draw eps = +1 giving x + v*dt and eps = -1 giving x - v*dt.
C1_StepIsPlusOrMinus ==
    Returned1D =>
      /\ ret.xip1 \in {args.xi + args.v * args.dt, args.xi - args.v * args.dt}
      /\ draw.eps \in {0 - 1, 1}
      /\ (draw.eps = 1 => ret.xip1 = args.xi + args.v * args.dt)
      /\ (draw.eps = 0 - 1 => ret.xip1 = args.xi - args.v * args.dt)

C1_Witness ==
    /\ Returned1D
    /\ draw.eps = 0 - 1
    /\ args.v * args.dt = 4
    /\ ret.xip1 = args.xi - 4

DeltaX == ret.xip1 - args.xi
DeltaY == ret.yip1 - args.yi

ExactlyOneMoved ==
    \/ (DeltaX # 0 /\ DeltaY = 0 /\ Abs(DeltaX) = Abs(args.v * args.dt))
    \/ (DeltaX = 0 /\ DeltaY # 0 /\ Abs(DeltaY) = Abs(args.v * args.dt))

\* C2 as stated: after every call of move_particle2D exactly one of the two
\* deltas is nonzero and it has magnitude |v*dt|.
C2_Original == Returned2D => ExactlyOneMoved

\* C2 amended: when v*dt is not zero exactly one of the two deltas is nonzero
\* and it has magnitude |v*dt|; when v*dt is zero both deltas are zero.
C2_ExactlyOneUnlessZeroStep ==
    Returned2D =>
      /\ (args.v * args.dt # 0 => ExactlyOneMoved)
      /\ (args.v * args.dt = 0 => DeltaX = 0 /\ DeltaY = 0)

C2_Witness ==
    /\ Returned2D
    /\ args.v * args.dt = 0 - 2
    /\ DeltaX = 0
    /\ DeltaY = 2

\* C3 as stated: with prob = 1 the returned x equals the input x and the
\* signed increment is applied to y.
C3_Original ==
    (Returned2D /\ args.prob = ProbOne) =>
      /\ ret.xip1 = args.xi
      /\ ret.yip1 = args.yi + draw.eps * args.v * args.dt

\* C3 amended: with prob = 1 every uniform draw A in [0, 1) is below prob, so
\* the signed increment is applied to x and the returned y equals the input y.
C3_ProbOneMovesX ==
    (Returned2D /\ args.prob = ProbOne) =>
      /\ ret.xip1 = args.xi + draw.eps * args.v * args.dt
      /\ ret.yip1 = args.yi

C3_Witness ==
    /\ Returned2D
    /\ args.prob = ProbOne
    /\ draw.A = UnitDen - 1
    /\ args.v * args.dt # 0
    /\ ret.xip1 # args.xi

\* C4: with prob = 0, for every uniform draw and either sign, the returned x
\* equals the input x and the returned y is y + eps*v*dt.
C4_ProbZeroMovesY ==
    (Returned2D /\ args.prob = 0) =>
      /\ ret.xip1 = args.xi
      /\ ret.yip1 = args.yi + draw.eps * args.v * args.dt

C4_Witness ==
    /\ Returned2D
    /\ args.prob = 0
    /\ draw.A = 0
    /\ args.v * args.dt # 0
    /\ ret.yip1 # args.yi

\* C5: for every sign, every uniform draw and every prob (also outside
\* [0, 1]) the call returns (x + eps*v*dt, y) when A < prob and
\* (x, y + eps*v*dt) otherwise, and it returns without an error.
C5_AxisByStrictLess ==
    (fn = "move_particle2D") =>
      /\ pc = "returned"
      /\ (draw.A < args.prob =>
            ret = [xip1 |-> args.xi + draw.eps * args.v * args.dt,
                   yip1 |-> args.yi])
      /\ (~(draw.A < args.prob) =>
            ret = [xip1 |-> args.xi,
                   yip1 |-> args.yi + draw.eps * args.v * args.dt])

C5_Witness ==
    /\ Returned2D
    /\ args.prob > ProbOne
    /\ args.yi # 0
    /\ args.v * args.dt # 0
    /\ ret.xip1 # args.xi
    /\ ret.yip1 = args.yi

(* ------------------- mean squared displacement (SpecMSD) --------------- *)
RECURSIVE GCD(_, _)
GCD(a, b) == IF b = 0 THEN a ELSE GCD(b, a % b)

\* a / b for b # 0, as the reduced fraction num/den with den > 0
TrueDiv(a, b) ==
    LET g == GCD(Abs(a), Abs(b))
        s == IF b < 0 THEN 0 - 1 ELSE 1
    IN [num |-> (s * a) \div g, den |-> (s * b) \div g]

Whole(n) == [num |-> n, den |-> 1]

Vals == (0 - MaxVal)..MaxVal
Vals2D == (0 - MaxVal2D)..MaxVal2D

InitMSD ==
    /\ \/ /\ fn = "calculate_mean_squared_displacement"
          /\ xk \in SeqsUpTo(Vals, MaxLen)
          /\ yk = <<>>
       \/ /\ fn = "calculate_mean_squared_displacement2D"
          /\ xk \in SeqsUpTo(Vals2D, MaxLen2D)
          /\ yk \in SeqsUpTo(Vals2D, MaxLen2D)
    /\ pc = "call"
    /\ N = None /\ i = None /\ sum = None /\ sigma_carre = None /\ err = None
    /\ args = None /\ draw = None /\ ret = None
    /\ traj = None
    /\ tape = None /\ cursor = None /\ run = None /\ runs = None

msdFrame == <<fn, xk, yk, stepVars, walkVars, detVars>>

\* N = len(xk); sum = 0; the for loop starts at i = 0
MSDEnter ==
    /\ pc = "call"
    /\ N' = Len(xk)
    /\ sum' = 0
    /\ i' = 0
    /\ pc' = "loop"
    /\ UNCHANGED <<sigma_carre, err, msdFrame>>

MSDLoopBody_noSquare ==
    /\ pc = "loop"
    /\ fn = "calculate_mean_squared_displacement"
    /\ i < N
    /\ sum' = sum + xk[i + 1]
    /\ i' = i + 1
    /\ UNCHANGED <<pc, N, sigma_carre, err, msdFrame>>

\* for i in range(0, N): sum = sum + xk[i]**2
MSDLoopBody ==
    /\ pc = "loop"
    /\ fn = "calculate_mean_squared_displacement"
    /\ i < N
    /\ sum' = sum + xk[i + 1] * xk[i + 1]
    /\ i' = i + 1
    /\ UNCHANGED <<pc, N, sigma_carre, err, msdFrame>>

MSD2DLoopBody_xOnly ==
    /\ pc = "loop"
    /\ fn = "calculate_mean_squared_displacement2D"
    /\ i < N
    /\ IF i < Len(yk)
         THEN /\ sum' = sum + xk[i + 1] * xk[i + 1]
              /\ i' = i + 1
              /\ UNCHANGED <<pc, err>>
         ELSE /\ pc' = "raised"
              /\ err' = "IndexError"
              /\ UNCHANGED <<sum, i>>
    /\ UNCHANGED <<N, sigma_carre, msdFrame>>

\* for i in range(0, N): sum = sum + xk[i]**2 + yk[i]**2
\* N is len(xk): yk[i] past the end of a shorter yk raises IndexError
MSD2DLoopBody ==
    /\ pc = "loop"
    /\ fn = "calculate_mean_squared_displacement2D"
    /\ i < N
    /\ IF i < Len(yk)
         THEN /\ sum' = sum + xk[i + 1] * xk[i + 1] + yk[i + 1] * yk[i + 1]
              /\ i' = i + 1
              /\ UNCHANGED <<pc, err>>
         ELSE /\ pc' = "raised"
              /\ err' = "IndexError"
              /\ UNCHANGED <<sum, i>>
    /\ UNCHANGED <<N, sigma_carre, msdFrame>>

MSDReturn_zeroGuard ==
    /\ pc = "loop"
    /\ i = N
    /\ sigma_carre' = IF N = 0 THEN Whole(0) ELSE TrueDiv(sum, N)
    /\ pc' = "returned"
    /\ UNCHANGED <<N, i, sum, err, msdFrame>>

\* sigma_carre = sum/(N); return sigma_carre
\* the division raises ZeroDivisionError when N is 0
MSDReturn ==
    /\ pc = "loop"
    /\ i = N
    /\ IF N = 0
         THEN /\ pc' = "raised"
              /\ err' = "ZeroDivisionError"
              /\ UNCHANGED sigma_carre
         ELSE /\ sigma_carre' = TrueDiv(sum, N)
              /\ pc' = "returned"
              /\ UNCHANGED err
    /\ UNCHANGED <<N, i, sum, msdFrame>>

NextMSD == MSDEnter \/ MSDLoopBody \/ MSD2DLoopBody \/ MSDReturn

SpecMSD == InitMSD /\ [][NextMSD]_vars

\* number of indexes of s holding the value val
Count(s, val) == Cardinality({k \in 1..Len(s) : s[k] = val})

RECURSIVE SumSqOfValues(_, _)
SumSqOfValues(S, s) ==
    IF S = {} THEN 0
    ELSE LET val == CHOOSE e \in S : TRUE
         IN Count(s, val) * val * val + SumSqOfValues(S \ {val}, s)

\* sum of the squares of the elements of s, by value and multiplicity
SumSqByValue(s) == SumSqOfValues({s[k] : k \in 1..Len(s)}, s)

RECURSIVE SumSqOfIndexes(_, _, _)
SumSqOfIndexes(S, xs, ys) ==
    IF S = {} THEN 0
    ELSE LET k == CHOOSE e \in S : TRUE
         IN xs[k] * xs[k] + ys[k] * ys[k] + SumSqOfIndexes(S \ {k}, xs, ys)

\* sum over the indexes of xs of xs[k]^2 + ys[k]^2
SumSqPairs(xs, ys) == SumSqOfIndexes(1..Len(xs), xs, ys)

MSD1D == fn = "calculate_mean_squared_displacement"
MSD2D == fn = "calculate_mean_squared_displacement2D"
MSDEnded == pc \in {"returned", "raised"}

\* C6: for a non-empty xk of length N the function returns the sum of the
\* squares of its elements divided by N, each element counted once whatever
\* its place in the sequence; <<3, -3, 0>> gives 6.
C6_MeanOfSquares ==
    (MSD1D /\ Len(xk) > 0 /\ MSDEnded) =>
      /\ pc = "returned"
      /\ sigma_carre.den > 0
      /\ sigma_carre.num * Len(xk) = SumSqByValue(xk) * sigma_carre.den
      /\ (xk = <<3, 0 - 3, 0>> => sigma_carre = Whole(6))

C6_Witness ==
    /\ MSD1D
    /\ pc = "returned"
    /\ xk = <<3, 0 - 3, 0>>
    /\ sigma_carre = Whole(6)

\* C7: for xk and yk of the same non-zero length N the function returns the
\* sum over all indexes of xk[i]^2 + yk[i]^2 divided by N; xk = <<1, 2>>,
\* yk = <<2, 1>> gives 5.
C7_MeanOfSquares2D ==
    (MSD2D /\ Len(xk) > 0 /\ Len(yk) = Len(xk) /\ MSDEnded) =>
      /\ pc = "returned"
      /\ N = Len(xk)
      /\ sigma_carre.den > 0
      /\ sigma_carre.num * Len(xk) = SumSqPairs(xk, yk) * sigma_carre.den
      /\ ((xk = <<1, 2>> /\ yk = <<2, 1>>) => sigma_carre = Whole(5))

C7_Witness ==
    /\ MSD2D
    /\ pc = "returned"
    /\ xk = <<1, 2>>
    /\ yk = <<2, 1>>
    /\ sigma_carre = Whole(5)

\* C8: with an empty ensemble (N = 0) both functions end by raising
\* ZeroDivisionError; they never return a number, in particular not 0.
C8_EmptyEnsembleRaises ==
    ((MSD1D \/ MSD2D) /\ Len(xk) = 0) =>
      /\ pc # "returned"
      /\ sigma_carre = None
      /\ (pc = "loop" => N = 0 /\ i = 0 /\ ENABLED MSDReturn)
      /\ (MSDEnded => pc = "raised" /\ err = "ZeroDivisionError")

C8_Witness ==
    /\ MSD2D
    /\ Len(xk) = 0
    /\ Len(yk) > 0
    /\ pc = "raised"
    /\ err = "ZeroDivisionError"

(* ------------- a trajectory of move_particle steps (SpecWalk) ---------- *)
Last(s) == s[Len(s)]

\* the trajectory starts at the origin and is stepped with v = 1, dt = 1
InitWalk ==
    /\ fn = "move_particle"
    /\ pc = "walking"
    /\ args = [xi |-> 0, v |-> 1, dt |-> 1]
    /\ traj = <<args.xi>>
    /\ draw = <<>>
    /\ ret = None
    /\ xk = None /\ yk = None /\ N = None /\ i = None /\ sum = None
    /\ sigma_carre = None /\ err = None
    /\ tape = None /\ cursor = None /\ run = None /\ runs = None

\* x = move_particle(x, v, dt), the new position appended to the trajectory
WalkStep ==
    /\ pc = "walking"
    /\ Len(traj) <= MaxSteps
    /\ \E k \in ChoiceIndexes :
         LET eps == choice(Signs, k) IN
           /\ draw' = Append(draw, eps)
           /\ traj' = Append(traj, move_particle(Last(traj), args.v, args.dt, eps))
    /\ UNCHANGED <<fn, pc, args, ret, msdVars, detVars>>

NextWalk == WalkStep

SpecWalk == InitWalk /\ [][NextWalk]_vars

StepsTaken == Len(traj) - 1

\* C9: in a trajectory stepped from 0 with v = 1 and dt = 1 every consecutive
\* difference is +1 or -1, and after n steps the position has the parity of
\* n and lies in [-n, n].
C9_WalkParityAndRange ==
    (pc = "walking") =>
      /\ traj[1] = 0
      /\ \A k \in 1..StepsTaken : traj[k + 1] - traj[k] \in {0 - 1, 1}
      /\ Last(traj) % 2 = StepsTaken % 2
      /\ 0 - StepsTaken <= Last(traj)
      /\ Last(traj) <= StepsTaken

C9_Witness ==
    /\ pc = "walking"
    /\ StepsTaken = 6
    /\ Last(traj) = 0 - 2
    /\ \E k \in 1..StepsTaken : traj[k] > 0

(* ------- two runs from the same seed on the shared generator (SpecDet) - *)
\* The module-level generator of `random` is a stream of draws, tape, read
\* at cursor; a draw past the end of what was drawn so far extends the
\* stream, and reseeding with the same seed rewinds the cursor.
Runs == {1, 2}

DetArgSets == [xi : {0}, yi : {1}, v : {1, 2}, dt : {1},
               prob : {0, UnitDen - 1, UnitDen}]

InitDet ==
    /\ fn \in {"move_particle", "move_particle2D"}
    /\ pc = "running"
    /\ args \in DetArgSets
    /\ tape = <<>>
    /\ cursor = 0
    /\ run = 1
    /\ runs = [r \in Runs |-> <<[x |-> args.xi, y |-> args.yi]>>]
    /\ draw = None /\ ret = None
    /\ xk = None /\ yk = None /\ N = None /\ i = None /\ sum = None
    /\ sigma_carre = None /\ err = None
    /\ traj = None

\* the stream after the draws ds are requested at position c
Drawn(t, c, ds) == IF c = Len(t) THEN t \o ds ELSE t

\* the stream yields ds at position c
Yields(t, c, ds) ==
    /\ c + Len(ds) <= Len(t)
    /\ \A j \in 1..Len(ds) : t[c + j] = ds[j]

detFrame == <<fn, pc, args, draw, ret, msdVars, walkVars>>

\* one more step of the current run with move_particle: one sign draw
DetCall ==
    /\ fn = "move_particle"
    /\ Len(runs[run]) <= MaxCalls
    /\ \E k \in ChoiceIndexes :
         LET ds == <<k>>
             here == Last(runs[run])
             eps == choice(Signs, k)
         IN /\ Yields(Drawn(tape, cursor, ds), cursor, ds)
            /\ tape' = Drawn(tape, cursor, ds)
            /\ cursor' = cursor + 1
            /\ runs' = [runs EXCEPT ![run] = Append(@,
                 [x |-> move_particle(here.x, args.v, args.dt, eps),
                  y |-> here.y])]
    /\ UNCHANGED <<run, detFrame>>

DetCall2D_uniformNotConsumed ==
    /\ fn = "move_particle2D"
    /\ Len(runs[run]) <= MaxCalls
    /\ \E k \in ChoiceIndexes, a \in UniformDraws :
         LET ds == <<k, a>>
             here == Last(runs[run])
             eps == choice(Signs, k)
             there == move_particle2D(here.x, here.y, args.v, args.dt,
                                      args.prob, eps, a)
         IN /\ Yields(Drawn(tape, cursor, ds), cursor, ds)
            /\ tape' = Drawn(tape, cursor, ds)
            /\ cursor' = cursor + 1
            /\ runs' = [runs EXCEPT ![run] = Append(@,
                 [x |-> there.xip1, y |-> there.yip1])]
    /\ UNCHANGED <<run, detFrame>>

\* one more step of the current run with move_particle2D: the sign draw,
\* then the uniform draw, both before the axis is chosen
DetCall2D ==
    /\ fn = "move_particle2D"
    /\ Len(runs[run]) <= MaxCalls
    /\ \E k \in ChoiceIndexes, a \in UniformDraws :
         LET ds == <<k, a>>
             here == Last(runs[run])
             eps == choice(Signs, k)
             there == move_particle2D(here.x, here.y, args.v, args.dt,
                                      args.prob, eps, a)
         IN /\ Yields(Drawn(tape, cursor, ds), cursor, ds)
            /\ tape' = Drawn(tape, cursor, ds)
            /\ cursor' = cursor + 2
            /\ runs' = [runs EXCEPT ![run] = Append(@,
                 [x |-> there.xip1, y |-> there.yip1])]
    /\ UNCHANGED <<run, detFrame>>

\* the first run ends; the generator is seeded again with the same seed and
\* the second run starts from the same position
DetReseed ==
    /\ run = 1
    /\ run' = 2
    /\ cursor' = 0
    /\ UNCHANGED <<tape, runs, detFrame>>

NextDet == DetCall \/ DetCall2D \/ DetReseed

SpecDet == InitDet /\ [][NextDet]_vars

DrawsPerCall == IF fn = "move_particle" THEN 1 ELSE 2

CallsMade(r) == Len(runs[r]) - 1

\* the position after call j of run r, computed from the position before it,
\* the arguments and the draws at the places the call reads
Recomputed(r, j) ==
    LET here == runs[r][j] IN
      IF fn = "move_particle"
        THEN [x |-> move_particle(here.x, args.v, args.dt,
                                  choice(Signs, tape[j])),
              y |-> here.y]
        ELSE LET there == move_particle2D(here.x, here.y, args.v, args.dt,
                            args.prob, choice(Signs, tape[2 * j - 1]),
                            tape[2 * j])
             IN [x |-> there.xip1, y |-> there.yip1]

====
